---- MODULE Spec2Model ----
(***************************************************************************)
(* A model of the two data-preparation scripts of the repository:          *)
(*   src/visualize_voc_annotations.py  polygon annotations -> label masks  *)
(*   src/clean_data.py                 sequential renaming of the files    *)
(***************************************************************************)
EXTENDS Integers, Sequences, FiniteSets, TLC

VARIABLES
    \* one call of xml_polygon_to_mask: its arguments and what it returned
    xml_state, objects, image_size, class_mapping, drawing_order, mask_result,
    \* the reading of one <polygon> element: the element and the points read
    polygon_element, points_result,
    \* the visualisation helpers: the mask array (and the array as it was given),
    \* the colour table, the image file, alpha, and what the two helpers returned
    mask_array, mask_given, class_colors, original_image, alpha,
    colored_result, blended_result,
    \* process_dataset: the listing of xml_dir, the files of image_dir, the place in
    \* the loop, and the files written to the three output folders
    xml_listing, image_dir, cursor, pc, output_dirs, output_files,
    \* rename_files_sequentially: the platform, the files of each subfolder of the
    \* split (name -> the file's name before the call), the folders as they were
    \* before the call, the name map, the subfolder the loop is at, the entries of
    \* its listing still to visit, and the place in the function
    platform, folders, folders_before, name_map, subfolder_index, listing_left, rename_pc

varsRename == <<platform, folders, folders_before, name_map, subfolder_index,
                listing_left, rename_pc>>

varsDataset == <<xml_listing, image_dir, cursor, pc, output_dirs, output_files>>

varsVisual == <<mask_array, mask_given, class_colors, original_image, alpha,
                colored_result, blended_result>>

varsPoints == <<polygon_element, points_result>>

varsMask == <<xml_state, objects, image_size, class_mapping, drawing_order, mask_result>>

\* ------------------------------------------------------------------------
\* Bounds of the model
\* ------------------------------------------------------------------------

\* the largest number of <object> elements in one annotation
MaxObjects == 3

\* the largest number of coordinate pairs of one polygon element
MaxVertices == 101

\* the largest class index held by a mask given to the visualisation helpers
MaxClassIndex == 3

\* the largest number of entries of the annotation folder
MaxItems == 3

\* the largest number of files in one subfolder of the split
MaxFiles == 2

\* ------------------------------------------------------------------------
\* Small helpers
\* ------------------------------------------------------------------------

Min(a, b) == IF a <= b THEN a ELSE b

Max(a, b) == IF a >= b THEN a ELSE b

\* all sequences over S of length at most n
RECURSIVE SeqsUpTo(_, _)
SeqsUpTo(S, n) ==
    IF n = 0 THEN {<<>>}
    ELSE LET shorter == SeqsUpTo(S, n - 1)
         IN shorter \cup {Append(s, e) : s \in {t \in shorter : Len(t) = n - 1}, e \in S}

\* distinct-element sequences over S of length at most n (the listings of a folder)
ListingsUpTo(S, n) ==
    {s \in SeqsUpTo(S, n) : \A i, j \in 1..Len(s) : i # j => s[i] # s[j]}

\* ------------------------------------------------------------------------
\* File names: strings as sequences of characters
\* ------------------------------------------------------------------------

\* str.endswith(suffix)
EndsWith(s, suffix) ==
    Len(s) >= Len(suffix) /\ SubSeq(s, Len(s) - Len(suffix) + 1, Len(s)) = suffix

\* the index of the last "." of the name, 0 when it has none
LastDot(s) ==
    LET dots == {i \in 1..Len(s) : s[i] = "."}
    IN IF dots = {} THEN 0 ELSE CHOOSE i \in dots : \A j \in dots : j <= i

\* os.path.splitext(name): (root, extension); leading dots start no extension
SplitExt(s) ==
    LET d == LastDot(s)
    IN IF d > 0 /\ \E i \in 1..(d - 1) : s[i] # "."
       THEN <<SubSeq(s, 1, d - 1), SubSeq(s, d, Len(s))>>
       ELSE <<s, <<>>>>

\* str.removesuffix(suffix)
RemoveSuffix(s, suffix) ==
    IF EndsWith(s, suffix) THEN SubSeq(s, 1, Len(s) - Len(suffix)) ELSE s

\* the characters of the file names, in the order of their code points
Chars ==
    <<".", "0", "1", "2", "3", "4", "5", "6", "7", "8", "9", "_",
      "a", "b", "c", "d", "e", "f", "g", "h", "i", "j", "k", "l", "m",
      "n", "o", "p", "q", "r", "s", "t", "u", "v", "w", "x", "y", "z">>

Ord(c) == CHOOSE i \in 1..Len(Chars) : Chars[i] = c

\* s < t for two strings: at the first place they differ s ends or is smaller
StrLess(s, t) ==
    \E k \in 1..(Len(t)) :
        /\ k <= Len(s) + 1
        /\ \A i \in 1..(k - 1) : s[i] = t[i]
        /\ k > Len(s) \/ Ord(s[k]) < Ord(t[k])

\* sorted(names)
RECURSIVE Sorted(_)
Sorted(names) ==
    IF names = {} THEN <<>>
    ELSE LET first == CHOOSE s \in names : \A t \in names : t = s \/ StrLess(s, t)
         IN <<first>> \o Sorted(names \ {first})

\* str(n) for a natural number
RECURSIVE Decimal(_)
Decimal(n) ==
    IF n < 10 THEN <<Chars[n + 2]>> ELSE Decimal(n \div 10) \o <<Chars[(n % 10) + 2]>>

\* ------------------------------------------------------------------------
\* The annotation document (xml.etree elements)
\* ------------------------------------------------------------------------

\* the text of a coordinate tag: a numeral, or text float() rejects
Num(v) == [num |-> TRUE, val |-> v]

NotANumber == [num |-> FALSE, val |-> 0]

\* a <polygon> element whose children are x1,y1 .. xn,yn for the given points
PolygonOf(pts) ==
    [x |-> [i \in 1..Len(pts) |-> Num(pts[i][1])],
     y |-> [i \in 1..Len(pts) |-> Num(pts[i][2])]]

\* the same children with the tags x<i> and y<i> removed
WithoutIndex(pe, i) ==
    [x |-> [j \in DOMAIN pe.x \ {i} |-> pe.x[j]],
     y |-> [j \in DOMAIN pe.y \ {i} |-> pe.y[j]]]

NoChildren == PolygonOf(<<>>)

\* an <object> element: its <name> (if any) and its <polygon> (if any)
Object(name, pe) ==
    [has_name |-> TRUE, name |-> name, has_polygon |-> TRUE, polygon |-> pe]

ObjectWithoutPolygon(name) ==
    [has_name |-> TRUE, name |-> name, has_polygon |-> FALSE, polygon |-> NoChildren]

ObjectWithoutName ==
    [has_name |-> FALSE, name |-> "", has_polygon |-> FALSE, polygon |-> NoChildren]

\* ------------------------------------------------------------------------
\* xml_polygon_to_mask
\* ------------------------------------------------------------------------

\* for i in range(1, 100)
RangeStop == 100

\* the pixels of an image of the given (width, height)
Pixels(size) == (0..(size[1] - 1)) \X (0..(size[2] - 1))

\* Image.new('L', image_size, 0)
NewMask(size) == [p \in Pixels(size) |-> 0]

\* what a call returns: a grid, None, or an exception that leaves the call
Grid(m) == [kind |-> "grid", grid |-> m, exc |-> ""]

None == [kind |-> "none", grid |-> <<>>, exc |-> ""]

Raise(e) == [kind |-> "raise", grid |-> <<>>, exc |-> e]

\* where the loop of lines 43-49 stops: the first i of range(1, 100) for which
\* x<i> or y<i> is missing (break), or the end of the range
StopIndex(pe) ==
    LET missing == {i \in 1..(RangeStop - 1) : ~(i \in DOMAIN pe.x /\ i \in DOMAIN pe.y)}
    IN IF missing = {} THEN RangeStop
       ELSE CHOOSE i \in missing : \A j \in missing : i <= j

\* lines 42-49: the points appended before the loop stops, or the ValueError of
\* float() on a coordinate read before it stops
ExtractPoints(pe) ==
    LET stop == StopIndex(pe)
        rejected == {i \in 1..(stop - 1) : ~(pe.x[i].num /\ pe.y[i].num)}
    IN IF rejected # {} THEN [exc |-> "ValueError", points |-> <<>>]
       ELSE [exc |-> "",
             points |-> [i \in 1..(stop - 1) |-> <<pe.x[i].val, pe.y[i].val>>]]

\* the i-th edge of the closed outline through the points
EdgeFrom(points, i) == points[i]

EdgeTo(points, i) == points[(i % Len(points)) + 1]

\* p lies on the segment a-b
OnSegment(p, a, b) ==
    /\ (b[1] - a[1]) * (p[2] - a[2]) = (b[2] - a[2]) * (p[1] - a[1])
    /\ Min(a[1], b[1]) <= p[1] /\ p[1] <= Max(a[1], b[1])
    /\ Min(a[2], b[2]) <= p[2] /\ p[2] <= Max(a[2], b[2])

\* the edge a-b crosses the horizontal ray from p to the right
CrossesRay(p, a, b) ==
    /\ (a[2] > p[2]) # (b[2] > p[2])
    /\ LET d == b[2] - a[2]
           lhs == (p[1] - a[1]) * d
           rhs == (p[2] - a[2]) * (b[1] - a[1])
       IN IF d > 0 THEN lhs < rhs ELSE lhs > rhs

\* the pixels draw.polygon fills: those on the outline and those inside it
PolygonPixels(points, pixels) ==
    {p \in pixels :
        \/ \E i \in 1..Len(points) : OnSegment(p, EdgeFrom(points, i), EdgeTo(points, i))
        \/ Cardinality({i \in 1..Len(points) :
                CrossesRay(p, EdgeFrom(points, i), EdgeTo(points, i))}) % 2 = 1}

\* the value an 8-bit ('L') image stores for a fill colour
Ink(fill) == IF fill < 0 THEN 0 ELSE IF fill > 255 THEN 255 ELSE fill

\* a fill that leaves the pixels an earlier polygon painted
DrawPolygonUnderneath(mask, points, fill) ==
    LET covered == PolygonPixels(points, DOMAIN mask)
    IN [p \in DOMAIN mask |-> IF p \in covered /\ mask[p] = 0 THEN Ink(fill) ELSE mask[p]]

\* draw.polygon(points, fill=class_id): the covered pixels take the fill value
DrawPolygon(mask, points, fill) ==
    LET covered == PolygonPixels(points, DOMAIN mask)
    IN [p \in DOMAIN mask |-> IF p \in covered THEN Ink(fill) ELSE mask[p]]

\* lines 40-54 for one object: [exc, mask]
DrawObject(mask, obj, class_id) ==
    IF ~obj.has_polygon THEN [exc |-> "", mask |-> mask]
    ELSE LET r == ExtractPoints(obj.polygon)
         IN IF r.exc # "" THEN [exc |-> r.exc, mask |-> mask]
            ELSE IF Len(r.points) = 0 THEN [exc |-> "", mask |-> mask]
            ELSE IF Len(r.points) < 2 THEN [exc |-> "TypeError", mask |-> mask]
            ELSE [exc |-> "", mask |-> DrawPolygon(mask, r.points, class_id)]

\* for obj in objects_by_name.get(class_name), from the k-th object on
RECURSIVE DrawObjects(_, _, _, _)
DrawObjects(mask, objs, k, class_id) ==
    IF k > Len(objs) THEN [exc |-> "", mask |-> mask]
    ELSE LET r == DrawObject(mask, objs[k], class_id)
         IN IF r.exc # "" THEN r ELSE DrawObjects(r.mask, objs, k + 1, class_id)

\* lines 24-29: the objects of each name, in document order
ObjectsByName(objs) ==
    [n \in {objs[k].name : k \in 1..Len(objs)} |->
        SelectSeq(objs, LAMBDA o : o.name = n)]

\* class_mapping.get(class_name, 0)
ClassId(cm, class_name) == IF class_name \in DOMAIN cm THEN cm[class_name] ELSE 0

\* a test that never skips: an unmapped class is drawn with the default id 0
IsSkippedNever(cm, class_name) == FALSE

\* a test on the id alone: a class mapped to 0 is skipped like an unmapped one
IsSkippedWhenZero(cm, class_name) == ClassId(cm, class_name) = 0

\* line 34: the class is skipped with a warning
IsSkipped(cm, class_name) == ClassId(cm, class_name) = 0 /\ class_name \notin DOMAIN cm

\* for class_name in drawing_order, from the i-th name on
RECURSIVE DrawClasses(_, _, _, _, _)
DrawClasses(mask, by_name, cm, order, i) ==
    IF i > Len(order) THEN [exc |-> "", mask |-> mask]
    ELSE IF IsSkipped(cm, order[i]) THEN DrawClasses(mask, by_name, cm, order, i + 1)
    ELSE IF order[i] \in DOMAIN by_name
         THEN LET r == DrawObjects(mask, by_name[order[i]], 1, ClassId(cm, order[i]))
              IN IF r.exc # "" THEN r ELSE DrawClasses(r.mask, by_name, cm, order, i + 1)
         ELSE DrawClasses(mask, by_name, cm, order, i + 1)

\* xml_polygon_to_mask(xml_path, image_size, class_mapping, drawing_order)
XmlPolygonToMask(xml, objs, size, cm, order) ==
    IF xml = "missing" THEN None
    ELSE IF xml = "unparsable" THEN Raise("ParseError")
    ELSE IF \E k \in 1..Len(objs) : ~objs[k].has_name THEN Raise("AttributeError")
    ELSE LET r == DrawClasses(NewMask(size), ObjectsByName(objs), cm, order, 1)
         IN IF r.exc # "" THEN Raise(r.exc) ELSE Grid(r.mask)

\* ------------------------------------------------------------------------
\* The calls of xml_polygon_to_mask that are explored
\* ------------------------------------------------------------------------

Square == <<<<0, 0>>, <<2, 0>>, <<2, 2>>, <<0, 2>>>>

Triangle == <<<<0, 0>>, <<1, 0>>, <<0, 1>>>>

Segment == <<<<1, 0>>, <<1, 1>>>>

Corner == <<<<0, 0>>>>

ObjectPool ==
    { Object("road", PolygonOf(Square)),
      Object("lm_solid", PolygonOf(Triangle)),
      \* x1,y1,x2,y2,x4,y4: the pair 3 is missing
      Object("lm_dashed", WithoutIndex(PolygonOf(<<<<0, 1>>, <<1, 1>>, <<1, 0>>, <<0, 0>>>>), 3)),
      \* a single pair
      Object("road", PolygonOf(Corner)),
      \* y1 is not a number
      Object("lm_solid", [x |-> <<Num(0)>>, y |-> <<NotANumber>>]),
      ObjectWithoutPolygon("road"),
      \* x1 without y1
      Object("lm_dashed", [x |-> <<Num(1)>>, y |-> <<>>]),
      ObjectWithoutName }

Mappings ==
    { [n \in {"road", "lm_solid", "lm_dashed"} |->
          CASE n = "road" -> 1 [] n = "lm_solid" -> 2 [] n = "lm_dashed" -> 3],
      [n \in {"road", "lm_dashed"} |-> IF n = "road" THEN 1 ELSE 3],
      [n \in {"road", "lm_solid", "lm_dashed"} |->
          CASE n = "road" -> 1 [] n = "lm_solid" -> 0 [] n = "lm_dashed" -> 3],
      [n \in {"road", "lm_solid"} |-> IF n = "road" THEN 300 ELSE 2] }

Orders ==
    { <<"road", "lm_solid", "lm_dashed">>,
      <<"lm_dashed", "lm_solid", "road">>,
      <<"lm_solid", "road", "lm_solid">> }

ImageSizes == {<<3, 2>>}

NotCalled == [kind |-> "pending", grid |-> <<>>, exc |-> ""]

IdleMask ==
    /\ xml_state = "idle" /\ objects = <<>> /\ image_size = <<0, 0>>
    /\ class_mapping = <<>> /\ drawing_order = <<>> /\ mask_result = NotCalled

InitMask ==
    /\ \/ xml_state = "ok" /\ objects \in SeqsUpTo(ObjectPool, MaxObjects)
       \/ xml_state \in {"missing", "unparsable"} /\ objects = <<>>
    /\ image_size \in ImageSizes
    /\ class_mapping \in Mappings
    /\ drawing_order \in Orders
    /\ mask_result = NotCalled

CallXmlPolygonToMask ==
    /\ mask_result = NotCalled
    /\ mask_result' = XmlPolygonToMask(xml_state, objects, image_size,
                                       class_mapping, drawing_order)
    /\ UNCHANGED <<xml_state, objects, image_size, class_mapping, drawing_order>>

\* ------------------------------------------------------------------------
\* The polygon elements whose points are read
\* ------------------------------------------------------------------------

\* the tags x<i> (or y<i>) present: 1..n without the index gap (0: no gap)
Indices(n, gap) == (1..n) \ {gap}

\* a polygon element with the tags x<i>, i in xs, and y<i>, i in ys
PolygonWith(xs, ys) ==
    [x |-> [i \in xs |-> Num(i % 3)], y |-> [i \in ys |-> Num((i \div 3) % 3)]]

VertexCounts == (0..3) \cup ((RangeStop - 2)..MaxVertices)

Gaps == {0, 1, 2, 3, RangeStop - 1, RangeStop}

NotRead == [exc |-> "pending", points |-> <<>>]

IdlePoints == polygon_element = NoChildren /\ points_result = NotRead

InitPoints ==
    /\ \E n \in VertexCounts : \E gx, gy \in Gaps :
          polygon_element = PolygonWith(Indices(n, gx), Indices(n, gy))
    /\ points_result = NotRead

CallExtractPoints ==
    /\ points_result = NotRead
    /\ points_result' = ExtractPoints(polygon_element)
    /\ UNCHANGED polygon_element

\* ------------------------------------------------------------------------
\* visualize_mask and visualize_mask_on_image
\* ------------------------------------------------------------------------

Black == <<0, 0, 0>>

\* np.array(color, dtype=np.uint8)
Uint8Color(color) == <<color[1] % 256, color[2] % 256, color[3] % 256>>

\* a step that repaints the pixels of the other classes black
WhereOrBlack(mask, item, visual_mask) ==
    [p \in DOMAIN mask |-> IF mask[p] = item[1] THEN Uint8Color(item[2]) ELSE Black]

\* lines 63-64 for one item (class_id, color) of the table: np.where
Where(mask, item, visual_mask) ==
    [p \in DOMAIN mask |-> IF mask[p] = item[1] THEN Uint8Color(item[2]) ELSE visual_mask[p]]

\* for class_id, color in class_colors.items(), from the i-th item on
RECURSIVE ColorItems(_, _, _, _)
ColorItems(mask, colors, i, visual_mask) ==
    IF i > Len(colors) THEN visual_mask
    ELSE ColorItems(mask, colors, i + 1, Where(mask, colors[i], visual_mask))

\* an RGB image of the given size
Image(size, px) == [mode |-> "RGB", size |-> size, px |-> px]

\* visualize_mask(mask_array, class_colors); a mask is [size, px]
VisualizeMask(mask, colors) ==
    Image(mask.size, ColorItems(mask.px, colors, 1, [p \in DOMAIN mask.px |-> Black]))

\* an image file: what Image.open reads from its header (mode, size), its pixel
\* data, and whether the pixel data can be decoded (a truncated file cannot)
ImageFileOf(mode, size, px, intact) ==
    [mode |-> mode, size |-> size, px |-> px, intact |-> intact]

\* a call that an exception left
Failed == [mode |-> "raise", size |-> <<0, 0>>, px |-> <<>>]

\* .convert('RGB'): a grey value becomes three equal channels
ConvertRGB(img) ==
    IF img.mode = "RGB" THEN Image(img.size, img.px)
    ELSE Image(img.size, [p \in DOMAIN img.px |-> <<img.px[p], img.px[p], img.px[p]>>])

\* .resize(size): each pixel of the result takes the source pixel under its centre
Resize(img, size) ==
    Image(size,
          [p \in Pixels(size) |->
              img.px[<<((2 * p[1] + 1) * img.size[1]) \div (2 * size[1]),
                       ((2 * p[2] + 1) * img.size[2]) \div (2 * size[2])>>]])

\* one channel of Image.blend: in1 + alpha * (in2 - in1), alpha = a[1] / a[2]
BlendChannel(v1, v2, a) == (v1 * a[2] + a[1] * (v2 - v1)) \div a[2]

\* a blend whose images are exchanged
BlendExchanged(im1, im2, a) ==
    Image(im1.size,
          [p \in DOMAIN im1.px |->
              [c \in 1..3 |-> BlendChannel(im2.px[p][c], im1.px[p][c], a)]])

\* Image.blend(im1, im2, alpha)
Blend(im1, im2, a) ==
    Image(im1.size,
          [p \in DOMAIN im1.px |->
              [c \in 1..3 |-> BlendChannel(im1.px[p][c], im2.px[p][c], a)]])

\* visualize_mask_on_image(image_path, mask_array, class_colors, alpha)
VisualizeMaskOnImage(img, mask, colors, a) ==
    LET original == ConvertRGB(img)
        resized == Resize(VisualizeMask(mask, colors), original.size)
    IN IF ~img.intact THEN Failed ELSE Blend(original, resized, a)

\* ------------------------------------------------------------------------
\* The calls of the visualisation helpers that are explored
\* ------------------------------------------------------------------------

MaskSizes == {<<1, 1>>, <<2, 1>>, <<1, 2>>, <<3, 1>>}

Masks ==
    UNION {{[size |-> sz, px |-> m] : m \in [Pixels(sz) -> 0..MaxClassIndex]} : sz \in MaskSizes}

Red == <<255, 0, 0>>

Green == <<0, 255, 0>>

Yellow == <<255, 255, 0>>

Blue == <<0, 0, 255>>

\* the items of the colour table, in the order of the dict
ColorTables ==
    { <<<<0, Black>>, <<1, Red>>, <<2, Green>>, <<3, Yellow>>>>,
      <<<<3, Yellow>>, <<0, Blue>>, <<1, Red>>>>,
      <<<<1, Red>>, <<2, Green>>>>,
      <<>> }

ImageFiles ==
    { ImageFileOf("RGB", <<1, 1>>, [p \in Pixels(<<1, 1>>) |-> <<10, 20, 30>>], TRUE),
      ImageFileOf("RGB", <<2, 1>>,
                  [p \in Pixels(<<2, 1>>) |-> IF p[1] = 0 THEN <<10, 20, 30>> ELSE <<201, 101, 1>>],
                  TRUE),
      ImageFileOf("RGB", <<2, 2>>,
                  [p \in Pixels(<<2, 2>>) |-> <<50 * p[1] + 1, 50 * p[2] + 2, 7>>], TRUE),
      ImageFileOf("L", <<1, 2>>, [p \in Pixels(<<1, 2>>) |-> 90 + p[2]], TRUE),
      ImageFileOf("RGB", <<1, 1>>, [p \in Pixels(<<1, 1>>) |-> <<10, 20, 30>>], FALSE) }

\* alpha as a fraction: 0, 0.5 (the default) and 1
Alphas == {<<0, 1>>, <<1, 2>>, <<1, 1>>}

NoImage == [mode |-> "pending", size |-> <<0, 0>>, px |-> <<>>]

IdleVisual ==
    /\ mask_array = <<>> /\ mask_given = <<>> /\ class_colors = <<>>
    /\ original_image = NoImage /\ alpha = <<0, 1>>
    /\ colored_result = NoImage /\ blended_result = NoImage

InitVisual ==
    /\ mask_array \in Masks
    /\ mask_given = mask_array
    /\ class_colors \in ColorTables
    /\ original_image \in ImageFiles
    /\ alpha \in Alphas
    /\ colored_result = NoImage
    /\ blended_result = NoImage

CallVisualizeMask ==
    /\ colored_result = NoImage
    /\ colored_result' = VisualizeMask(mask_array, class_colors)
    /\ UNCHANGED <<mask_array, mask_given, class_colors, original_image, alpha, blended_result>>

CallVisualizeMaskOnImage ==
    /\ blended_result = NoImage
    /\ blended_result' = VisualizeMaskOnImage(original_image, mask_array, class_colors, alpha)
    /\ UNCHANGED <<mask_array, mask_given, class_colors, original_image, alpha, colored_result>>

\* ------------------------------------------------------------------------
\* process_dataset
\* ------------------------------------------------------------------------

DotXml == <<".", "x", "m", "l">>

DotJpg == <<".", "j", "p", "g">>

DotPng == <<".", "p", "n", "g">>

\* base_name = os.path.splitext(xml_file)[0]
BaseName(xml_file) == SplitExt(xml_file)[1]

\* image_file = base_name + '.jpg'
ImageFile(xml_file) == BaseName(xml_file) \o DotJpg

\* line 106: base_name + '.png' in output_training_dir
TrainingFile(xml_file) == <<"masks", BaseName(xml_file) \o DotPng>>

\* line 110: base_name + '_visual.png' in output_visual_overlay_dir
OverlayFile(xml_file) ==
    <<"masks_overlay", BaseName(xml_file) \o <<"_", "v", "i", "s", "u", "a", "l">> \o DotPng>>

\* line 114: base_name + '_colored.png' in output_visual_colored_dir
ColoredFile(xml_file) ==
    <<"masks_colored", BaseName(xml_file) \o <<"_", "c", "o", "l", "o", "r", "e", "d">> \o DotPng>>

\* image.save(path): the file is created or replaced
Save(files, path, content) ==
    [q \in DOMAIN files \cup {path} |-> IF q = path THEN content ELSE files[q]]

\* the entry of the listing the loop is at
Entry == xml_listing[cursor]

\* lines 83-85: os.makedirs of the three output folders
MakeDirs ==
    /\ pc = "start"
    /\ output_dirs' = {"masks", "masks_overlay", "masks_colored"}
    /\ pc' = "next"
    /\ UNCHANGED <<xml_listing, image_dir, cursor, output_files>>
    /\ UNCHANGED <<xml_state, objects, image_size, mask_result>>
    /\ UNCHANGED <<mask_array, mask_given, original_image, blended_result, colored_result>>

\* lines 87-88: a listed file that is no .xml file is passed over
PassOver ==
    /\ pc = "next" /\ cursor <= Len(xml_listing)
    /\ ~EndsWith(Entry.file, DotXml)
    /\ cursor' = cursor + 1
    /\ UNCHANGED <<xml_listing, image_dir, pc, output_dirs, output_files>>
    /\ UNCHANGED <<xml_state, objects, image_size, mask_result>>
    /\ UNCHANGED <<mask_array, mask_given, original_image, blended_result, colored_result>>

\* lines 89-96: the image of the annotation is missing, the item is skipped
SkipNoImage ==
    /\ pc = "next" /\ cursor <= Len(xml_listing)
    /\ EndsWith(Entry.file, DotXml)
    /\ ImageFile(Entry.file) \notin DOMAIN image_dir
    /\ cursor' = cursor + 1
    /\ UNCHANGED <<xml_listing, image_dir, pc, output_dirs, output_files>>
    /\ UNCHANGED <<xml_state, objects, image_size, mask_result>>
    /\ UNCHANGED <<mask_array, mask_given, original_image, blended_result, colored_result>>

\* lines 89-103: the image is opened for its size and the mask is made; None
\* skips the item, an exception leaves process_dataset
MakeMask ==
    /\ pc = "next" /\ cursor <= Len(xml_listing)
    /\ EndsWith(Entry.file, DotXml)
    /\ ImageFile(Entry.file) \in DOMAIN image_dir
    /\ xml_state' = Entry.xml
    /\ objects' = Entry.objects
    /\ image_size' = image_dir[ImageFile(Entry.file)].size
    /\ mask_result' = XmlPolygonToMask(xml_state', objects', image_size',
                                       class_mapping, drawing_order)
    /\ IF mask_result'.kind = "raise" THEN pc' = "raised" /\ cursor' = cursor
       ELSE IF mask_result'.kind = "none" THEN pc' = "next" /\ cursor' = cursor + 1
       ELSE pc' = "save_training" /\ cursor' = cursor
    /\ UNCHANGED <<xml_listing, image_dir, output_dirs, output_files>>
    /\ UNCHANGED <<mask_array, mask_given, original_image, blended_result, colored_result>>

\* lines 105-106: the single-channel mask is saved
SaveTraining ==
    /\ pc = "save_training"
    /\ output_files' = Save(output_files, TrainingFile(Entry.file), mask_result.grid)
    /\ pc' = "save_overlay"
    /\ UNCHANGED <<xml_listing, image_dir, cursor, output_dirs>>
    /\ UNCHANGED <<xml_state, objects, image_size, mask_result>>
    /\ UNCHANGED <<mask_array, mask_given, original_image, blended_result, colored_result>>

\* lines 109-110: the overlay (alpha=0.5) is made and saved; an exception of
\* visualize_mask_on_image leaves process_dataset
SaveOverlay ==
    /\ pc = "save_overlay"
    /\ mask_array' = [size |-> image_size, px |-> mask_result.grid]
    /\ mask_given' = mask_array'
    /\ original_image' = image_dir[ImageFile(Entry.file)]
    /\ blended_result' = VisualizeMaskOnImage(original_image', mask_array', class_colors, <<1, 2>>)
    /\ IF blended_result' = Failed
       THEN pc' = "raised" /\ output_files' = output_files
       ELSE /\ pc' = "save_colored"
            /\ output_files' = Save(output_files, OverlayFile(Entry.file), blended_result')
    /\ UNCHANGED <<xml_listing, image_dir, cursor, output_dirs, colored_result>>
    /\ UNCHANGED <<xml_state, objects, image_size, mask_result>>

\* lines 113-116: the colourised mask is made and saved; the item is done
SaveColored ==
    /\ pc = "save_colored"
    /\ colored_result' = VisualizeMask(mask_array, class_colors)
    /\ output_files' = Save(output_files, ColoredFile(Entry.file), colored_result')
    /\ pc' = "next"
    /\ cursor' = cursor + 1
    /\ UNCHANGED <<xml_listing, image_dir, output_dirs>>
    /\ UNCHANGED <<xml_state, objects, image_size, mask_result>>
    /\ UNCHANGED <<mask_array, mask_given, original_image, blended_result>>

\* line 87: the listing is exhausted, process_dataset returns
Return ==
    /\ pc = "next" /\ cursor > Len(xml_listing)
    /\ pc' = "done"
    /\ UNCHANGED <<xml_listing, image_dir, cursor, output_dirs, output_files>>
    /\ UNCHANGED <<xml_state, objects, image_size, mask_result>>
    /\ UNCHANGED <<mask_array, mask_given, original_image, blended_result, colored_result>>

\* ------------------------------------------------------------------------
\* The runs of process_dataset that are explored
\* ------------------------------------------------------------------------

\* an entry of xml_dir: its name, whether it can be read, and its <object>s
XmlEntry(file, xml, objs) == [file |-> file, xml |-> xml, objects |-> objs]

EntryPool ==
    { \* a road and a lane marking over it
      XmlEntry(<<"a">> \o DotXml, "ok",
               <<Object("road", PolygonOf(Square)), Object("lm_solid", PolygonOf(Triangle))>>),
      \* an object without polygon data, a polygon without points, an unknown class
      XmlEntry(<<"b">> \o DotXml, "ok",
               <<ObjectWithoutPolygon("road"), Object("lm_solid", NoChildren),
                 Object("lm_dashed", PolygonOf(Segment))>>),
      \* a coordinate that is not a number
      XmlEntry(<<"c">> \o DotXml, "ok",
               <<Object("road", [x |-> <<Num(0)>>, y |-> <<NotANumber>>])>>),
      \* a road; the image of this annotation is a truncated file
      XmlEntry(<<"d">> \o DotXml, "ok", <<Object("road", PolygonOf(Square))>>),
      \* a dangling link: listed, but os.path.exists is false
      XmlEntry(<<"e">> \o DotXml, "missing", <<>>),
      \* not an annotation
      XmlEntry(<<"n", ".", "t", "x", "t">>, "ok", <<>>) }

\* the images that image_dir may hold
ImagePool ==
    { <<"a">> \o DotJpg, <<"b">> \o DotJpg, <<"c">> \o DotJpg, <<"d">> \o DotJpg,
      <<"e">> \o DotJpg }

\* the content of an image file
Photo(name) ==
    IF name = <<"b">> \o DotJpg
    THEN ImageFileOf("RGB", <<1, 2>>, [p \in Pixels(<<1, 2>>) |-> <<10, 20, 30 + p[2]>>], TRUE)
    ELSE ImageFileOf("RGB", <<2, 2>>,
                     [p \in Pixels(<<2, 2>>) |-> <<50 * p[1] + 1, 50 * p[2] + 2, 7>>],
                     name # <<"d">> \o DotJpg)

\* the class mappings process_dataset is run with: the script's, and one that
\* lacks a class of the drawing order
DatasetMappings ==
    { [n \in {"road", "lm_solid", "lm_dashed"} |->
          CASE n = "road" -> 1 [] n = "lm_solid" -> 2 [] n = "lm_dashed" -> 3],
      [n \in {"road", "lm_solid"} |-> IF n = "road" THEN 1 ELSE 2] }

IdleDataset ==
    /\ xml_listing = <<>> /\ image_dir = <<>> /\ cursor = 0 /\ pc = "idle"
    /\ output_dirs = {} /\ output_files = <<>>

InitDataset ==
    /\ xml_listing \in ListingsUpTo(EntryPool, MaxItems)
    /\ \E missing \in ImagePool \cup {<<>>} :
          image_dir = [f \in ImagePool \ {missing} |-> Photo(f)]
    /\ cursor = 1
    /\ pc = "start"
    /\ output_dirs = {}
    /\ output_files = <<>>
    /\ class_mapping \in DatasetMappings
    /\ drawing_order = <<"road", "lm_solid", "lm_dashed">>
    /\ class_colors = <<<<0, Black>>, <<1, Red>>, <<2, Green>>, <<3, Yellow>>>>
    /\ alpha = <<1, 2>>
    /\ xml_state = "idle" /\ objects = <<>> /\ image_size = <<0, 0>>
    /\ mask_result = NotCalled
    /\ mask_array = <<>> /\ mask_given = <<>> /\ original_image = NoImage
    /\ colored_result = NoImage /\ blended_result = NoImage

\* ------------------------------------------------------------------------
\* rename_files_sequentially
\* ------------------------------------------------------------------------

\* the split whose folders are renamed
Split == <<"t", "r", "a", "i", "n">>

\* the subfolders the call is given: the images and one folder of masks
SubfoldersToProcess == <<"images", "masks_colored">>

SuffixColored == <<"_", "c", "o", "l", "o", "r", "e", "d">>

SuffixVisual == <<"_", "v", "i", "s", "u", "a", "l">>

\* new_base_name = f"{split}_{counter}"
NewBaseName(counter) == Split \o <<"_">> \o Decimal(counter)

\* name_map[old_base_name] = new_base_name
Put(map, key, value) ==
    [k \in DOMAIN map \cup {key} |-> IF k = key THEN value ELSE map[k]]

\* lines 21-27: the loop over the sorted listing, from its i-th name on
RECURSIVE BuildNameMap(_, _, _)
BuildNameMap(listing, counter, map) ==
    IF counter > Len(listing) THEN map
    ELSE BuildNameMap(listing, counter + 1,
                      Put(map, SplitExt(listing[counter])[1], NewBaseName(counter)))

\* lines 46-50: the base name without one of the known suffixes
LookupBase(original_base) ==
    IF EndsWith(original_base, SuffixColored) THEN RemoveSuffix(original_base, SuffixColored)
    ELSE IF EndsWith(original_base, SuffixVisual) THEN RemoveSuffix(original_base, SuffixVisual)
    ELSE original_base

\* lines 42-57: the new name of a file, <<>> when the map holds none for it
NewFilename(filename, map) ==
    LET parts == SplitExt(filename)
        lookup_base == LookupBase(parts[1])
    IN IF lookup_base \in DOMAIN map THEN map[lookup_base] \o parts[2] ELSE <<>>

\* os.rename(old, new) in a folder where new does not name another file, or on
\* a platform where it replaces that file
Rename(files, old, new) ==
    [f \in (DOMAIN files \ {old}) \cup {new} |-> IF f = new THEN files[old] ELSE files[f]]

\* the folder the loop of line 32 is at
Subfolder == SubfoldersToProcess[subfolder_index]

\* lines 15-17: the images folder is missing, the split is left alone
SourceMissing ==
    /\ rename_pc = "start"
    /\ "images" \notin DOMAIN folders
    /\ rename_pc' = "done"
    /\ UNCHANGED <<platform, folders, folders_before, name_map, subfolder_index, listing_left>>

\* lines 21-29: the name map is made from the sorted listing of the images
MakeNameMap ==
    /\ rename_pc = "start"
    /\ "images" \in DOMAIN folders
    /\ name_map' = BuildNameMap(Sorted(DOMAIN folders["images"]), 1, <<>>)
    /\ subfolder_index' = 1
    /\ rename_pc' = "folder"
    /\ UNCHANGED <<platform, folders, folders_before, listing_left>>

\* lines 32-37: a subfolder that does not exist is skipped
SkipSubfolder ==
    /\ rename_pc = "folder"
    /\ subfolder_index <= Len(SubfoldersToProcess)
    /\ Subfolder \notin DOMAIN folders
    /\ subfolder_index' = subfolder_index + 1
    /\ UNCHANGED <<platform, folders, folders_before, name_map, listing_left, rename_pc>>

\* line 41: os.listdir(target_dir), the names the loop will visit
ListSubfolder ==
    /\ rename_pc = "folder"
    /\ subfolder_index <= Len(SubfoldersToProcess)
    /\ Subfolder \in DOMAIN folders
    /\ listing_left' = DOMAIN folders[Subfolder]
    /\ rename_pc' = "rename"
    /\ UNCHANGED <<platform, folders, folders_before, name_map, subfolder_index>>

\* lines 41-56: a listed file the map has no name for is left alone
KeepFile ==
    /\ rename_pc = "rename"
    /\ \E filename \in listing_left :
         /\ NewFilename(filename, name_map) = <<>>
         /\ listing_left' = listing_left \ {filename}
    /\ UNCHANGED <<platform, folders, folders_before, name_map, subfolder_index, rename_pc>>

\* lines 41-62: a listed file (os.listdir gives no order) is renamed; where the
\* new name is taken by another file, POSIX replaces that file and Windows
\* raises FileExistsError
RenameFile ==
    /\ rename_pc = "rename"
    /\ \E filename \in listing_left :
         LET new_filename == NewFilename(filename, name_map)
             files == folders[Subfolder]
         IN /\ new_filename # <<>>
            /\ listing_left' = listing_left \ {filename}
            /\ IF new_filename = filename
               THEN folders' = folders /\ rename_pc' = rename_pc
               ELSE IF new_filename \in DOMAIN files /\ platform = "nt"
               THEN folders' = folders /\ rename_pc' = "raised"
               ELSE /\ folders' = [folders EXCEPT ![Subfolder] = Rename(files, filename, new_filename)]
                    /\ rename_pc' = rename_pc
    /\ UNCHANGED <<platform, folders_before, name_map, subfolder_index>>

\* line 64: the listing is exhausted, the loop goes to the next subfolder
EndSubfolder ==
    /\ rename_pc = "rename"
    /\ listing_left = {}
    /\ subfolder_index' = subfolder_index + 1
    /\ rename_pc' = "folder"
    /\ UNCHANGED <<platform, folders, folders_before, name_map, listing_left>>

\* line 65: every subfolder was visited, the function returns
ReturnRename ==
    /\ rename_pc = "folder"
    /\ subfolder_index > Len(SubfoldersToProcess)
    /\ rename_pc' = "done"
    /\ UNCHANGED <<platform, folders, folders_before, name_map, subfolder_index, listing_left>>

\* ------------------------------------------------------------------------
\* The folders rename_files_sequentially is run on
\* ------------------------------------------------------------------------

ImageNames ==
    { <<"a">> \o DotJpg, <<"b">> \o DotJpg,
      Split \o <<"_", "1">> \o DotJpg, Split \o <<"_", "2">> \o DotJpg }

MaskNames ==
    { <<"a">> \o SuffixColored \o DotPng, <<"b">> \o SuffixColored \o DotPng,
      <<"a">> \o DotPng, <<"c">> \o SuffixVisual \o DotPng }

\* the subsets of at most n names
UpTo(names, n) == {S \in SUBSET names : Cardinality(S) <= n}

\* a folder holding the named files, each under its own name
FolderOf(names) == [f \in names |-> f]

IdleRename ==
    /\ platform = "idle" /\ folders = <<>> /\ folders_before = <<>> /\ name_map = <<>>
    /\ subfolder_index = 0 /\ listing_left = {} /\ rename_pc = "idle"

InitRename ==
    /\ platform \in {"posix", "nt"}
    /\ \/ \E images \in UpTo(ImageNames, MaxFiles), masks \in UpTo(MaskNames, MaxFiles) :
            folders = [d \in {"images", "masks_colored"} |->
                          IF d = "images" THEN FolderOf(images) ELSE FolderOf(masks)]
       \/ \E images \in UpTo(ImageNames, MaxFiles) :
            folders = [d \in {"images"} |-> FolderOf(images)]
       \/ \E masks \in UpTo(MaskNames, MaxFiles) :
            folders = [d \in {"masks_colored"} |-> FolderOf(masks)]
    /\ folders_before = folders
    /\ name_map = <<>>
    /\ subfolder_index = 0
    /\ listing_left = {}
    /\ rename_pc = "start"

\* ------------------------------------------------------------------------
\* Specifications
\* ------------------------------------------------------------------------

vars == <<varsMask, varsPoints, varsVisual, varsDataset, varsRename>>

StartMask == InitMask /\ IdlePoints /\ IdleVisual /\ IdleDataset /\ IdleRename

NextMask ==
    CallXmlPolygonToMask /\ UNCHANGED <<varsPoints, varsVisual, varsDataset, varsRename>>

SpecMask == StartMask /\ [][NextMask]_vars

StartPoints == InitPoints /\ IdleMask /\ IdleVisual /\ IdleDataset /\ IdleRename

NextPoints ==
    CallExtractPoints /\ UNCHANGED <<varsMask, varsVisual, varsDataset, varsRename>>

SpecPoints == StartPoints /\ [][NextPoints]_vars

StartVisual == InitVisual /\ IdleMask /\ IdlePoints /\ IdleDataset /\ IdleRename

NextVisual ==
    \/ CallVisualizeMask /\ UNCHANGED <<varsMask, varsPoints, varsDataset, varsRename>>
    \/ CallVisualizeMaskOnImage /\ UNCHANGED <<varsMask, varsPoints, varsDataset, varsRename>>

SpecVisual == StartVisual /\ [][NextVisual]_vars

StartDataset == InitDataset /\ IdlePoints /\ IdleRename

\* the arguments of process_dataset do not change during the run
ConfigUnchanged ==
    UNCHANGED <<class_mapping, drawing_order, class_colors, alpha, varsPoints, varsRename>>

NextDataset ==
    \/ MakeDirs /\ ConfigUnchanged
    \/ PassOver /\ ConfigUnchanged
    \/ SkipNoImage /\ ConfigUnchanged
    \/ MakeMask /\ ConfigUnchanged
    \/ SaveTraining /\ ConfigUnchanged
    \/ SaveOverlay /\ ConfigUnchanged
    \/ SaveColored /\ ConfigUnchanged
    \/ Return /\ ConfigUnchanged

SpecDataset == StartDataset /\ [][NextDataset]_vars

StartRename == InitRename /\ IdleMask /\ IdlePoints /\ IdleVisual /\ IdleDataset

OthersUnchanged == UNCHANGED <<varsMask, varsPoints, varsVisual, varsDataset>>

NextRename ==
    \/ SourceMissing /\ OthersUnchanged
    \/ MakeNameMap /\ OthersUnchanged
    \/ SkipSubfolder /\ OthersUnchanged
    \/ ListSubfolder /\ OthersUnchanged
    \/ KeepFile /\ OthersUnchanged
    \/ RenameFile /\ OthersUnchanged
    \/ EndSubfolder /\ OthersUnchanged
    \/ ReturnRename /\ OthersUnchanged

SpecRename == StartRename /\ [][NextRename]_vars

\* ------------------------------------------------------------------------
\* Claims about xml_polygon_to_mask
\* ------------------------------------------------------------------------

\* the polygons a call draws: (position in the drawing order, position in the
\* document) of every object of a mapped class that has a polygon of 2+ points
DrawnWith(cm) ==
    {e \in (1..Len(drawing_order)) \X (1..Len(objects)) :
        /\ drawing_order[e[1]] \in DOMAIN cm
        /\ objects[e[2]].has_name
        /\ objects[e[2]].name = drawing_order[e[1]]
        /\ objects[e[2]].has_polygon
        /\ Len(ExtractPoints(objects[e[2]].polygon).points) >= 2}

\* the polygon of the k-th object covers the pixel
CoversPixel(k, p) ==
    p \in PolygonPixels(ExtractPoints(objects[k].polygon).points, Pixels(image_size))

\* e is drawn after f: a later class, or the same class and later in the document
DrawnAfter(e, f) == e[1] > f[1] \/ (e[1] = f[1] /\ e[2] > f[2])

CoveringWith(cm, p) == {e \in DrawnWith(cm) : CoversPixel(e[2], p)}

\* the polygon drawn last among those covering the pixel
LastCoveringWith(cm, p) ==
    CHOOSE e \in CoveringWith(cm, p) :
        \A f \in CoveringWith(cm, p) : f = e \/ DrawnAfter(e, f)

\* C1 as stated: every pixel of the returned grid holds the class index of the
\* polygon drawn last among those covering it, and 0 when none covers it.
C1_LastPolygonIndex ==
    mask_result.kind = "grid" =>
        \A p \in Pixels(image_size) :
            mask_result.grid[p] =
                IF CoveringWith(class_mapping, p) = {} THEN 0
                ELSE class_mapping[drawing_order[LastCoveringWith(class_mapping, p)[1]]]

\* C1 amended: every pixel of the returned grid holds the class index, clipped to
\* the 8-bit range 0..255 of the mask, of the polygon drawn last among those
\* covering it, and 0 when none covers it.
C1_LastPolygonInk ==
    mask_result.kind = "grid" =>
        \A p \in Pixels(image_size) :
            mask_result.grid[p] =
                IF CoveringWith(class_mapping, p) = {} THEN 0
                ELSE Ink(class_mapping[drawing_order[LastCoveringWith(class_mapping, p)[1]]])

\* a returned grid with a pixel under two polygons of different classes, which
\* holds the index of the later one, and a pixel no polygon covers
C1_Witness ==
    /\ mask_result.kind = "grid"
    /\ \E p \in Pixels(image_size) :
         \E e, f \in CoveringWith(class_mapping, p) :
            /\ DrawnAfter(e, f)
            /\ e = LastCoveringWith(class_mapping, p)
            /\ class_mapping[drawing_order[e[1]]] # class_mapping[drawing_order[f[1]]]
            /\ mask_result.grid[p] = class_mapping[drawing_order[e[1]]]
    /\ \E p \in Pixels(image_size) :
         CoveringWith(class_mapping, p) = {} /\ mask_result.grid[p] = 0

\* the names of the drawing order that the mapping does not hold
Unmapped == {drawing_order[i] : i \in 1..Len(drawing_order)} \ DOMAIN class_mapping

\* the annotation without the objects of a class
WithoutClass(objs, c) == SelectSeq(objs, LAMBDA o : ~(o.has_name /\ o.name = c))

\* C2: a class of the drawing order that is absent from the mapping contributes
\* nothing: the call returns what it returns with that class's objects removed
\* from the annotation, whatever their point data.
C2_UnmappedContributesNothing ==
    mask_result # NotCalled =>
        \A c \in Unmapped :
            mask_result = XmlPolygonToMask(xml_state, WithoutClass(objects, c),
                                           image_size, class_mapping, drawing_order)

\* a returned grid where an unmapped class has a polygon that covers a pixel (left
\* at another class's value) and an unmapped class has a polygon float() rejects
C2_Witness ==
    /\ mask_result.kind = "grid"
    /\ \E c \in Unmapped : \E k \in 1..Len(objects) :
         /\ objects[k].name = c /\ objects[k].has_polygon
         /\ ExtractPoints(objects[k].polygon).exc = ""
         /\ \E p \in Pixels(image_size) : CoversPixel(k, p) /\ mask_result.grid[p] # 0
    /\ \E c \in Unmapped : \E k \in 1..Len(objects) :
         /\ objects[k].name = c /\ objects[k].has_polygon
         /\ ExtractPoints(objects[k].polygon).exc # ""

\* the names the mapping maps explicitly to index 0
MappedToZero == {n \in DOMAIN class_mapping : class_mapping[n] = 0}

\* the mapping with a name removed
WithoutName(cm, n) == [m \in DOMAIN cm \ {n} |-> cm[m]]

\* what the call returns with the name removed from the mapping
ResultWithout(n) ==
    XmlPolygonToMask(xml_state, objects, image_size,
                     WithoutName(class_mapping, n), drawing_order)

\* C9 as stated: a name mapped explicitly to 0 is indistinguishable from an absent
\* name: the grid is the one returned with the name removed from the mapping.
C9_ZeroLikeAbsent ==
    mask_result # NotCalled =>
        \A n \in MappedToZero : mask_result = ResultWithout(n)

\* C9 amended: a name mapped explicitly to 0 is not skipped, its polygons are drawn
\* with the value 0. When the call returns a grid, so does the call with the name
\* removed from the mapping, and the two grids agree at every pixel except those
\* whose last-drawn covering polygon is of that name, which hold 0.
C9_ZeroIsDrawn ==
    mask_result.kind = "grid" =>
        \A n \in MappedToZero :
            /\ ResultWithout(n).kind = "grid"
            /\ \A p \in Pixels(image_size) :
                 mask_result.grid[p] =
                    IF /\ CoveringWith(class_mapping, p) # {}
                       /\ drawing_order[LastCoveringWith(class_mapping, p)[1]] = n
                    THEN 0
                    ELSE ResultWithout(n).grid[p]

\* a returned grid with a name mapped to 0 whose polygon erased a pixel that the
\* call with the name removed leaves at another class's index
C9_Witness ==
    /\ mask_result.kind = "grid"
    /\ \E n \in MappedToZero : \E p \in Pixels(image_size) :
         /\ ResultWithout(n).kind = "grid"
         /\ mask_result.grid[p] = 0
         /\ ResultWithout(n).grid[p] # 0

\* ------------------------------------------------------------------------
\* Claims about the reading of a polygon's points
\* ------------------------------------------------------------------------

\* the largest k for which x<i> and y<i> are both present for every i <= k
PrefixLength(pe) ==
    CHOOSE k \in 0..Cardinality(DOMAIN pe.x) :
        /\ \A i \in 1..k : i \in DOMAIN pe.x /\ i \in DOMAIN pe.y
        /\ ~((k + 1) \in DOMAIN pe.x /\ (k + 1) \in DOMAIN pe.y)

\* C3: the points read are exactly the longest prefix (x1,y1),...,(xk,yk) of
\* consecutively indexed pairs with both coordinates present, whatever the number
\* of vertices: the first missing index alone determines the vertex count.
C3_LongestPrefix ==
    points_result # NotRead =>
        /\ points_result.exc = ""
        /\ points_result.points =
              [i \in 1..PrefixLength(polygon_element) |->
                  <<polygon_element.x[i].val, polygon_element.y[i].val>>]

\* ------------------------------------------------------------------------
\* Claims about the visualisation helpers
\* ------------------------------------------------------------------------

\* the class indices the colour table holds
TableIndices == {class_colors[i][1] : i \in 1..Len(class_colors)}

\* the colour the table configures for an index, black when it holds none
ConfiguredColor(index) ==
    IF index \in TableIndices
    THEN (CHOOSE item \in {class_colors[i] : i \in 1..Len(class_colors)} : item[1] = index)[2]
    ELSE Black

\* C7: visualize_mask maps every pixel to the colour configured for its class
\* index and to black when the index is absent from the table, leaves the mask
\* array as it was given, and maps an all-zero mask to the background colour.
C7_ColorOfIndex ==
    /\ mask_array = mask_given
    /\ colored_result # NoImage =>
        /\ colored_result.size = mask_given.size
        /\ \A p \in Pixels(mask_given.size) :
              colored_result.px[p] = ConfiguredColor(mask_given.px[p])
        /\ (\A p \in Pixels(mask_given.size) : mask_given.px[p] = 0) =>
              \A p \in Pixels(mask_given.size) : colored_result.px[p] = ConfiguredColor(0)

\* a colourised mask with two pixels of different, configured, non-black colours
\* and a pixel whose index the table does not hold, which is black
C7_Witness ==
    /\ colored_result # NoImage
    /\ \E p, q, r \in Pixels(mask_given.size) :
         /\ mask_given.px[p] \in TableIndices /\ mask_given.px[q] \in TableIndices
         /\ colored_result.px[p] # Black /\ colored_result.px[q] # Black
         /\ colored_result.px[p] # colored_result.px[q]
         /\ mask_given.px[r] \notin TableIndices /\ colored_result.px[r] = Black

C4_NoExceptionPropagates == pc # "raised"

\* the name of an annotation file without its ".xml"
Stem(file) == SubSeq(file, 1, Len(file) - Len(DotXml))

\* the three output files of an annotation: <stem>.png, <stem>_visual.png and
\* <stem>_colored.png, each in its folder
ExpectedFiles(file) ==
    { <<"masks", Stem(file) \o <<".", "p", "n", "g">>>>,
      <<"masks_overlay", Stem(file) \o <<"_", "v", "i", "s", "u", "a", "l", ".", "p", "n", "g">>>>,
      <<"masks_colored",
        Stem(file) \o <<"_", "c", "o", "l", "o", "r", "e", "d", ".", "p", "n", "g">>>> }

\* the output files an entry of the listing has
FilesOf(i) == ExpectedFiles(xml_listing[i].file) \cap DOMAIN output_files

\* the entry is one process_dataset skips: no annotation, no image, or no mask
IsSkippedItem(i) ==
    \/ ~EndsWith(xml_listing[i].file, DotXml)
    \/ (Stem(xml_listing[i].file) \o <<".", "j", "p", "g">>) \notin DOMAIN image_dir
    \/ xml_listing[i].xml = "missing"

\* C5: the output of every item handled is all-or-nothing: a skipped item has no
\* output file, an item that is not skipped has exactly its three files, and an
\* item the loop has not reached, or has failed on, has none; no other file is
\* written.
C5_AllOrNothing ==
    /\ \A i \in 1..Len(xml_listing) :
         /\ i < cursor =>
               /\ FilesOf(i) = {} \/ FilesOf(i) = ExpectedFiles(xml_listing[i].file)
               /\ IsSkippedItem(i) <=> FilesOf(i) = {}
         /\ (i > cursor \/ (i = cursor /\ pc \in {"start", "next", "raised"})) =>
               FilesOf(i) = {}
    /\ DOMAIN output_files \subseteq
          UNION {ExpectedFiles(xml_listing[i].file) : i \in 1..Len(xml_listing)}
    /\ \A path \in DOMAIN output_files : path[1] \in output_dirs

\* ------------------------------------------------------------------------
\* Claims about rename_files_sequentially
\* ------------------------------------------------------------------------

\* the images as sorted(os.listdir(source_dir)) listed them before the call
ImagesBefore == Sorted(DOMAIN folders_before["images"])

\* the file was an image's own file or one of its suffixed companions
BelongsTo(filename, image_base) ==
    SplitExt(filename)[1] \in
        {image_base, image_base \o SuffixColored, image_base \o SuffixVisual}

\* C6: after the call corresponding files carry the same number: for the k-th
\* image of the sorted listing, with base name b, every file of every processed
\* subfolder whose base name was b, b_colored or b_visual is now named
\* <split>_<k> followed by its original extension.
C6_SameNumber ==
    (rename_pc = "done" /\ "images" \in DOMAIN folders_before) =>
        \A k \in 1..Len(ImagesBefore) :
            \A d \in DOMAIN folders_before : \A f \in DOMAIN folders_before[d] :
                BelongsTo(f, SplitExt(ImagesBefore[k])[1]) =>
                    LET now == Split \o <<"_">> \o Decimal(k) \o SplitExt(f)[2]
                    IN now \in DOMAIN folders[d] /\ folders[d][now] = f

\* C10: no file is lost: no rename step gives a file the name of another file
\* that still exists in the folder, so each subfolder holds as many files during
\* and after the call as before it.
C10_NoFileLost ==
    \A d \in DOMAIN folders :
        Cardinality(DOMAIN folders[d]) = Cardinality(DOMAIN folders_before[d])

====
